---- MODULE Spec2Model ----
(***************************************************************************)
(* Pure Storage FlashBlade share driver for OpenStack Manila               *)
(* (manila/share/drivers/purestorage/flashblade.py).                       *)
(*                                                                         *)
(* The driver holds no durable state of its own: the state is the array's  *)
(* file systems and snapshots, the driver's configuration, and the record  *)
(* of the last orchestrator-facing operation (its arguments, the array     *)
(* calls it issued, the exception it ended with and its return value).     *)
(* Every handler is one action: it runs the handler's array calls in       *)
(* program order against the array and stops at the first exception.       *)
(*                                                                         *)
(* A handler is an operator from a set of runs to the set of runs it can   *)
(* end in: the array decides between its possible answers at each call.    *)
(***************************************************************************)
EXTENDS Integers, Sequences, FiniteSets, TLC

VARIABLES file_systems,          \* array: file-system name -> attributes
          file_system_snapshots, \* array: snapshot name -> attributes
          flashblade_eradicate,  \* self.configuration.flashblade_eradicate
          versions,              \* what api_version.list_versions() reports
          last,                  \* the last driver operation and its outcome
          callers                \* callers inside delete_share: position and run so far

vars == <<file_systems, file_system_snapshots, flashblade_eradicate, versions, last, callers>>

(***************************************************************************)
(* Bounds of the model and program constants.                              *)
(***************************************************************************)
MaxSizeGb == 2
MaxCapacity == 2
MaxRules == 2
\* units.Gi
Gi == 1073741824

ShareIds == {"a"}
SnapshotIds == {"s1"}
Protocols == {"NFS", "CIFS", "SMB"}

\* the orchestrator's records
Shares == [id : ShareIds, size : 1..MaxSizeGb, share_proto : Protocols]
Snapshots == [id : SnapshotIds, share_instance_id : ShareIds]
\* create_share alone reads share['size']
ShareRefs == {share \in Shares : share.size = 1}
\* delete_share, extend_share, shrink_share and ensure_share read share['id'] alone
ShareIdRefs == {share \in ShareRefs : share.share_proto = "NFS"}

Rule(type, to, level) == [access_type |-> type, access_to |-> to, access_level |-> level]
RuleLists ==
    {<<>>,
     <<Rule("user", "alice", "rw")>>,
     <<Rule("ip", "10.0.0.1", "su")>>,
     <<Rule("ip", "10.0.0.1", "rw"), Rule("ip", "10.0.0.2", "ro")>>}
\* add_rules and delete_rules
Deltas == {<< <<>>, <<>> >>,
           << <<Rule("ip", "10.0.0.2", "ro")>>, <<Rule("ip", "10.0.0.3", "rw")>> >>}

\* the access rules of the rule lists up to MaxRules rules: two valid ip
\* rules, a rule that is not an ip rule, an ip rule of an unknown level
AccessRuleAlphabet ==
    {Rule("ip", "10.0.0.1", "rw"), Rule("ip", "10.0.0.2", "ro"),
     Rule("user", "alice", "su"), Rule("ip", "10.0.0.3", "su")}
AccessRuleLists == UNION {[1..n -> AccessRuleAlphabet] : n \in 0..MaxRules}

SpaceRecords == [capacity : 0..MaxCapacity, total_physical : 0..MaxCapacity,
                 unique : 0..MaxCapacity, data_reduction : {1}]
\* what list_arrays_space() answers: the array's record, or that of the array
\* followed by the record of another array
SpaceLists ==
    {<<space>> : space \in SpaceRecords}
      \cup {<<space, [capacity |-> MaxCapacity, total_physical |-> 0, unique |-> 0,
                      data_reduction |-> 1]>> : space \in SpaceRecords}

\* self.data_address, read from flashblade_data_vip in do_setup
data_address == "10.9.9.9"

\* Python values carry their type: None, a str, an int, a tuple
PyNone == [none |-> TRUE]
PyStr(s) == [str |-> s]
PyInt(i) == [int |-> i]
PyTuple(t) == [tuple |-> t]
NoException == "NoException"

(***************************************************************************)
(* The array behind self._sys.  A call either raises ApiException or       *)
(* answers.  A list call for a name the array does not hold answers with   *)
(* an empty items list or with an items list whose first element is None,  *)
(* or it raises; any call can raise because of a transient fault.          *)
(***************************************************************************)
ArrayAnswer(st, val) == [fs |-> st.fs, snaps |-> st.snaps, raised |-> FALSE, val |-> val]

ArrayFault(st) == [fs |-> st.fs, snaps |-> st.snaps, raised |-> TRUE, val |-> PyNone]

NotFound(st) ==
    {ArrayAnswer(st, [items |-> <<>>]), ArrayAnswer(st, [items |-> <<PyNone>>]), ArrayFault(st)}

FileSystemDefaults ==
    [name |-> "", provisioned |-> [hi |-> 0, lo |-> 0], hard_limit_enabled |-> FALSE,
     fast_remove_directory_enabled |-> FALSE, snapshot_directory_enabled |-> FALSE,
     nfs |-> [enabled |-> FALSE, v3_enabled |-> FALSE, v4_1_enabled |-> FALSE, rules |-> ""],
     smb |-> [enabled |-> FALSE],
     destroyed |-> FALSE]

\* attributes that are set in upd replace those of base; the others are kept
Patch(base, upd) ==
    [k \in DOMAIN base |->
        IF k \in DOMAIN upd
        THEN IF k \in {"nfs", "smb"}
             THEN [j \in DOMAIN base[k] |-> IF j \in DOMAIN upd[k] THEN upd[k][j] ELSE base[k][j]]
             ELSE upd[k]
        ELSE base[k]]

Without(f, key) == [k \in DOMAIN f \ {key} |-> f[k]]

SnapshotFilter(source, suffix) == "source='" \o source \o "' and suffix='" \o suffix \o "'"

\* the answers the array can give to the call req in the state st
ArrayCall(st, req) ==
    CASE req.api = "list_versions" ->
            {ArrayAnswer(st, [versions |-> versions])}
      [] req.api = "list_arrays_space" ->
            {ArrayAnswer(st, [items |-> items]) : items \in SpaceLists}
      [] req.api = "list_file_systems" ->
            IF req.names[1] \in DOMAIN st.fs
            THEN {ArrayAnswer(st, [items |-> <<st.fs[req.names[1]]>>])}
            ELSE NotFound(st)
      [] req.api = "create_file_systems" ->
            IF req.file_system.name \in DOMAIN st.fs
            THEN {ArrayFault(st)}
            ELSE {[ArrayAnswer(st, PyNone) EXCEPT
                     !.fs = st.fs @@ (req.file_system.name :>
                                        Patch(FileSystemDefaults, req.file_system))]}
      [] req.api = "update_file_systems" ->
            IF req.name \notin DOMAIN st.fs
            THEN {ArrayFault(st)}
            ELSE {[ArrayAnswer(st, PyNone) EXCEPT
                     !.fs = [st.fs EXCEPT ![req.name] = Patch(@, req.attributes)]]}
      [] req.api = "delete_file_systems" ->
            IF req.name \notin DOMAIN st.fs \/ ~st.fs[req.name].destroyed
            THEN {ArrayFault(st)}
            ELSE {[ArrayAnswer(st, PyNone) EXCEPT !.fs = Without(st.fs, req.name)]}
      [] req.api = "list_file_system_snapshots" ->
            IF \E n \in DOMAIN st.snaps :
                  SnapshotFilter(st.snaps[n].source, st.snaps[n].suffix) = req.filter
            THEN {ArrayAnswer(st, [items |-> <<st.snaps[n]>>]) :
                    n \in {m \in DOMAIN st.snaps :
                             SnapshotFilter(st.snaps[m].source, st.snaps[m].suffix) = req.filter}}
            ELSE NotFound(st)
      [] req.api = "create_file_system_snapshots" ->
            IF \/ req.sources[1] \notin DOMAIN st.fs
               \/ (req.sources[1] \o "," \o req.suffix) \in DOMAIN st.snaps
            THEN {ArrayFault(st)}
            ELSE {[ArrayAnswer(st, PyNone) EXCEPT
                     !.snaps = st.snaps @@ ((req.sources[1] \o "," \o req.suffix) :>
                                 [name |-> req.sources[1] \o "," \o req.suffix,
                                  source |-> req.sources[1],
                                  suffix |-> req.suffix, destroyed |-> FALSE])]}
      [] req.api = "update_file_system_snapshots" ->
            IF req.name \notin DOMAIN st.snaps
            THEN {ArrayFault(st)}
            ELSE {[ArrayAnswer(st, PyNone) EXCEPT
                     !.snaps = [st.snaps EXCEPT ![req.name] = Patch(@, req.attributes)]]}
      [] req.api = "delete_file_system_snapshots" ->
            IF req.name \notin DOMAIN st.snaps \/ ~st.snaps[req.name].destroyed
            THEN {ArrayFault(st)}
            ELSE {[ArrayAnswer(st, PyNone) EXCEPT !.snaps = Without(st.snaps, req.name)]}

(***************************************************************************)
(* A run of a handler: the array as the handler has left it so far, the    *)
(* calls issued, the pending exception and the value of the last           *)
(* expression.  A statement is skipped while an exception is pending.      *)
(***************************************************************************)
Start(fs, snaps) == [fs |-> fs, snaps |-> snaps, calls |-> <<>>, exc |-> NoException, val |-> PyNone]

Raise(r, e) == IF r.exc # NoException THEN r ELSE [r EXCEPT !.exc = e, !.val = PyNone]

Return(r, v) == IF r.exc # NoException THEN r ELSE [r EXCEPT !.val = v]

\* the run r after the array has given the answer out to the call req; the
\* call is logged with its answer and with whether a transient fault raised
Called(r, req, out, transient) ==
    [fs |-> out.fs, snaps |-> out.snaps,
     calls |-> Append(r.calls, [req |-> req, raised |-> out.raised,
                                transient |-> transient, answer |-> out.val]),
     exc |-> IF out.raised THEN "ApiException" ELSE NoException,
     val |-> out.val]

\* self._sys.<api>(...): the next array call of the runs
Sys(rs, req) ==
    UNION {IF r.exc # NoException
           THEN {r}
           ELSE {Called(r, req, out, FALSE) : out \in ArrayCall(r, req)}
                  \cup {Called(r, req, ArrayFault(r), TRUE)} : r \in rs}

\* the function returns v
Returns(rs, v) == {Return(r, v) : r \in rs}

\* except <from>: raise <to>
Reraise(rs, from, to) == {IF r.exc = from THEN [r EXCEPT !.exc = to] ELSE r : r \in rs}

(***************************************************************************)
(* The driver.                                                             *)
(***************************************************************************)
\* Python integers are unbounded: a byte count is kept as hi * 65536 + lo
Wide(x) == [hi |-> x \div 65536, lo |-> x % 65536]

\* n * w on byte counts
Times(n, w) == [hi |-> n * w.hi + (n * w.lo) \div 65536, lo |-> (n * w.lo) % 65536]

_MANILA_TO_FLASHBLADE_ACCESS_LEVEL == [rw |-> "rw", ro |-> "ro"]

\* the decorator: ApiException leaves the wrapped function as ShareBackendException
purity_fb_to_manila_exceptions(rs) == Reraise(rs, "ApiException", "ShareBackendException")

_make_source_name(snapshot) == "share-" \o snapshot.share_instance_id \o "-manila"

_make_share_name(manila_share) == "share-" \o manila_share.id \o "-manila"

\* a slip in the table: ro is granted as rw
_get_flashblade_access_level_as_rw(r, access) ==
    IF access.access_level \in DOMAIN _MANILA_TO_FLASHBLADE_ACCESS_LEVEL
    THEN Return(r, "rw")
    ELSE Raise(r, "InvalidShareAccessLevel")

\* a slip in the lookup: an unknown level is passed on as it is
_get_flashblade_access_level_unchecked(r, access) ==
    IF access.access_level \in DOMAIN _MANILA_TO_FLASHBLADE_ACCESS_LEVEL
    THEN Return(r, _MANILA_TO_FLASHBLADE_ACCESS_LEVEL[access.access_level])
    ELSE Return(r, access.access_level)

_get_flashblade_access_level(r, access) ==
    IF access.access_level \in DOMAIN _MANILA_TO_FLASHBLADE_ACCESS_LEVEL
    THEN Return(r, _MANILA_TO_FLASHBLADE_ACCESS_LEVEL[access.access_level])
    ELSE Raise(r, "InvalidShareAccessLevel")

\* a slip in the format string: the path separator is lost
_get_full_nfs_export_path_without_slash(export_path) == data_address \o ":" \o export_path

_get_full_nfs_export_path(export_path) == data_address \o ":/" \o export_path

\* '\\{subnet_ip}\{export_path}' is not a raw string: '\\' is one backslash
\* and '\{' is a backslash followed by the opening brace of the field
_get_full_cifs_export_path(export_path) == "\\" \o data_address \o "\\" \o export_path

\* res.items[0]: IndexError on an empty list
FirstItem(rs) ==
    {IF r.exc # NoException THEN r
     ELSE IF Len(r.val.items) = 0 THEN Raise(r, "IndexError")
     ELSE Return(r, r.val.items[1]) : r \in rs}

_get_flashblade_filesystem_by_name(rs, name) ==
    purity_fb_to_manila_exceptions(
        Reraise({IF item.exc = NoException /\ item.val = PyNone
                 THEN Raise(item, "ShareResourceNotFound")
                 ELSE item :
                   item \in FirstItem(Sys(rs, [api |-> "list_file_systems", names |-> <<name>>]))},
                "InvalidShare", "ShareResourceNotFound"))

_get_flashblade_snapshot_by_name(rs, name) ==
    FirstItem(Reraise(Sys(rs, [api |-> "list_file_system_snapshots", filter |-> name]),
                      "InvalidShare", "ShareSnapshotNotFound"))

\* a slip in the index: the last array-space record is read, not the first
_get_available_capacity_of_last_record(rs) ==
    {IF space.exc # NoException THEN space
     ELSE Return(space,
                 PyTuple(<<space.val.items[Len(space.val.items)].capacity
                             - space.val.items[Len(space.val.items)].total_physical,
                           space.val.items[Len(space.val.items)].capacity,
                           space.val.items[Len(space.val.items)].unique,
                           space.val.items[Len(space.val.items)].data_reduction>>)) :
       space \in Sys(rs, [api |-> "list_arrays_space"])}

_get_available_capacity(rs) ==
    {IF array_space.exc # NoException THEN array_space
     ELSE Return(array_space,
                 PyTuple(<<array_space.val.capacity - array_space.val.total_physical,
                           array_space.val.capacity,
                           array_space.val.unique,
                           array_space.val.data_reduction>>)) :
       array_space \in FirstItem(Sys(rs, [api |-> "list_arrays_space"]))}

\* float(bytes) / units.Gi, kept as the fraction
GiB(bytes) == [num |-> bytes, den |-> Gi]

_update_share_stats(rs) ==
    {IF cap.exc # NoException THEN cap
     ELSE Return(cap, [vendor_name |-> "PURE STORAGE",
                       storage_protocol |-> "NFS_CIFS",
                       data_reduction |-> cap.val.tuple[4],
                       total_capacity_gb |-> GiB(cap.val.tuple[2]),
                       free_capacity_gb |-> GiB(cap.val.tuple[1]),
                       provisioned_capacity_gb |-> GiB(cap.val.tuple[3]),
                       snapshot_support |-> TRUE,
                       create_share_from_snapshot_support |-> FALSE,
                       mount_snapshot_support |-> FALSE,
                       revert_to_snapshot_support |-> FALSE]) :
       cap \in _get_available_capacity(rs)}

\* a slip in the attributes: the resize sends an empty NFS rule string too
_resize_share_resets_rules(rs, share, new_size) ==
    purity_fb_to_manila_exceptions(
        UNION {IF found.exc = "ShareResourceNotFound"
               THEN {[found EXCEPT !.exc = NoException, !.val = PyNone]}
               ELSE Returns(Sys({found}, [api |-> "update_file_systems",
                                          name |-> _make_share_name(share),
                                          attributes |-> [provisioned |->
                                                            Times(new_size, Wide(Gi)),
                                                          nfs |-> [rules |-> ""]]]),
                            PyNone) :
                 found \in _get_flashblade_filesystem_by_name(rs, _make_share_name(share))})

_resize_share(rs, share, new_size) ==
    purity_fb_to_manila_exceptions(
        UNION {IF found.exc = "ShareResourceNotFound"
               THEN {[found EXCEPT !.exc = NoException, !.val = PyNone]}
               ELSE Returns(Sys({found}, [api |-> "update_file_systems",
                                          name |-> _make_share_name(share),
                                          attributes |-> [provisioned |->
                                                            Times(new_size, Wide(Gi))]]),
                            PyNone) :
                 found \in _get_flashblade_filesystem_by_name(rs, _make_share_name(share))})

RECURSIVE NfsRules(_, _, _)
\* the loop of _update_nfs_access from rule i on; r.val is nfs_rules so far
NfsRules(r, access_rules, i) ==
    IF r.exc # NoException \/ i > Len(access_rules) THEN r
    ELSE IF access_rules[i].access_type = "ip"
    THEN IF _get_flashblade_access_level(r, access_rules[i]).exc # NoException
         THEN _get_flashblade_access_level(r, access_rules[i])
         ELSE NfsRules(Return(r, r.val \o access_rules[i].access_to \o "("
                                   \o _get_flashblade_access_level(r, access_rules[i]).val
                                   \o ",no_root_squash) "),
                       access_rules, i + 1)
    ELSE NfsRules(r, access_rules, i + 1)

_update_nfs_access(rs, share, access_rules) ==
    purity_fb_to_manila_exceptions(
        UNION {IF found.exc = "ShareResourceNotFound"
               THEN {[found EXCEPT !.exc = NoException, !.val = PyNone]}
               ELSE UNION {Returns(Sys({nfs_rules}, [api |-> "update_file_systems",
                                                     name |-> _make_share_name(share),
                                                     attributes |->
                                                       [nfs |-> [rules |-> nfs_rules.val]]]),
                                   PyNone) :
                             nfs_rules \in {NfsRules(Return(found, ""), access_rules, 1)}} :
                 found \in _get_flashblade_filesystem_by_name(rs, _make_share_name(share))})

\* the attributes common to both protocols
NewFileSystem(share) ==
    [name |-> _make_share_name(share), provisioned |-> Times(share.size, Wide(Gi)),
     hard_limit_enabled |-> TRUE, fast_remove_directory_enabled |-> TRUE,
     snapshot_directory_enabled |-> TRUE]

\* the NFS branch of create_share
CreateNfsShare(rs, share) ==
    Returns(UNION {Sys({ver}, [api |-> "create_file_systems",
                               file_system |->
                                 IF ver.exc = NoException /\ "1.6" \in ver.val.versions
                                 THEN NewFileSystem(share)
                                        @@ [nfs |-> [v3_enabled |-> TRUE, rules |-> "",
                                                     v4_1_enabled |-> TRUE]]
                                 ELSE NewFileSystem(share)
                                        @@ [nfs |-> [enabled |-> TRUE, rules |-> ""]]]) :
                     ver \in Sys(rs, [api |-> "list_versions"])},
            PyStr(_get_full_nfs_export_path(_make_share_name(share))))

\* the CIFS branch of create_share
CreateCifsShare(rs, share) ==
    Returns(Sys(rs, [api |-> "create_file_systems",
                     file_system |-> NewFileSystem(share) @@ [smb |-> [enabled |-> TRUE]]]),
            PyStr(_get_full_cifs_export_path(_make_share_name(share))))

\* a slip in the branching: every protocol that is not NFS is served as CIFS
create_share_else_cifs(rs, share) ==
    purity_fb_to_manila_exceptions(
        IF share.share_proto = "NFS"
        THEN CreateNfsShare(rs, share)
        ELSE CreateCifsShare(rs, share))

create_share(rs, share) ==
    purity_fb_to_manila_exceptions(
        IF share.share_proto = "NFS"
        THEN CreateNfsShare(rs, share)
        ELSE IF share.share_proto = "CIFS"
        THEN CreateCifsShare(rs, share)
        ELSE {Raise(r, "InvalidShare") : r \in rs})

create_snapshot(rs, snapshot) ==
    purity_fb_to_manila_exceptions(
        Returns(Reraise(Sys(rs, [api |-> "create_file_system_snapshots",
                                 sources |-> <<_make_source_name(snapshot)>>,
                                 suffix |-> snapshot.id]),
                        "ShareResourceNotFound", "InvalidShare"),
                PyNone))

\* update_file_systems(name=dataset_name, attributes=FileSystem(nfs=..., smb=..., destroyed=True))
SoftDeleteFileSystem(dataset_name) ==
    [api |-> "update_file_systems", name |-> dataset_name,
     attributes |-> [nfs |-> [v3_enabled |-> FALSE, v4_1_enabled |-> FALSE],
                     smb |-> [enabled |-> FALSE],
                     destroyed |-> TRUE]]

\* a slip in the order: the hard delete is issued before the soft delete
delete_share_eradicates_first(rs, share) ==
    purity_fb_to_manila_exceptions(
        UNION {IF found.exc = "ShareResourceNotFound"
               THEN {[found EXCEPT !.exc = NoException, !.val = PyNone]}
               ELSE IF flashblade_eradicate
               THEN Returns(Sys(Sys({found}, [api |-> "delete_file_systems",
                                              name |-> _make_share_name(share)]),
                                SoftDeleteFileSystem(_make_share_name(share))), PyNone)
               ELSE Returns(Sys({found}, SoftDeleteFileSystem(_make_share_name(share))), PyNone) :
                 found \in _get_flashblade_filesystem_by_name(rs, _make_share_name(share))})

\* a slip in the error handling: a fault of the soft delete is swallowed
delete_share_continues_after_fault(rs, share) ==
    purity_fb_to_manila_exceptions(
        UNION {IF found.exc = "ShareResourceNotFound"
               THEN {[found EXCEPT !.exc = NoException, !.val = PyNone]}
               ELSE IF flashblade_eradicate
               THEN Returns(Sys(Reraise(Sys({found},
                                            SoftDeleteFileSystem(_make_share_name(share))),
                                        "ApiException", NoException),
                                [api |-> "delete_file_systems",
                                 name |-> _make_share_name(share)]), PyNone)
               ELSE Returns(Sys({found}, SoftDeleteFileSystem(_make_share_name(share))), PyNone) :
                 found \in _get_flashblade_filesystem_by_name(rs, _make_share_name(share))})

delete_share(rs, share) ==
    purity_fb_to_manila_exceptions(
        UNION {IF found.exc = "ShareResourceNotFound"
               THEN {[found EXCEPT !.exc = NoException, !.val = PyNone]}
               ELSE IF flashblade_eradicate
               THEN Returns(Sys(Sys({found}, SoftDeleteFileSystem(_make_share_name(share))),
                                [api |-> "delete_file_systems",
                                 name |-> _make_share_name(share)]), PyNone)
               ELSE Returns(Sys({found}, SoftDeleteFileSystem(_make_share_name(share))), PyNone) :
                 found \in _get_flashblade_filesystem_by_name(rs, _make_share_name(share))})

\* filt = 'source=\'{0}\' and suffix=\'{1}\''.format(dataset_name, snapshot['id'])
SnapshotFilt(snapshot) ==
    "source='" \o _make_source_name(snapshot) \o "' and suffix='" \o snapshot.id \o "'"

\* the name as the commented-out lines 382-384 build it, with a dot
SnapshotFullName_with_dot(snapshot) == _make_source_name(snapshot) \o "." \o snapshot.id

\* name = '{0},{1}'.format(dataset_name, snapshot['id'])
SnapshotFullName(snapshot) == _make_source_name(snapshot) \o "," \o snapshot.id

\* update_file_system_snapshots(name=name, attributes=FileSystemSnapshot(destroyed=True))
SoftDeleteSnapshot(snapshot) ==
    [api |-> "update_file_system_snapshots", name |-> SnapshotFullName(snapshot),
     attributes |-> [destroyed |-> TRUE]]

\* a slip in the gate: the snapshot is eradicated whatever the flag says
delete_snapshot_always_eradicates(rs, snapshot) ==
    purity_fb_to_manila_exceptions(
        Returns(Sys(Sys(_get_flashblade_snapshot_by_name(rs, SnapshotFilt(snapshot)),
                        SoftDeleteSnapshot(snapshot)),
                    [api |-> "delete_file_system_snapshots",
                     name |-> SnapshotFullName(snapshot)]), PyNone))

\* the handler of ShareResourceNotFound reads flashblade_snapshot, which the
\* failed assignment has left unbound
delete_snapshot(rs, snapshot) ==
    purity_fb_to_manila_exceptions(
        UNION {IF flashblade_snapshot.exc = "ShareResourceNotFound"
               THEN {[flashblade_snapshot EXCEPT !.exc = "UnboundLocalError"]}
               ELSE IF flashblade_eradicate
               THEN Returns(Sys(Sys({flashblade_snapshot}, SoftDeleteSnapshot(snapshot)),
                                [api |-> "delete_file_system_snapshots",
                                 name |-> SnapshotFullName(snapshot)]), PyNone)
               ELSE Returns(Sys({flashblade_snapshot}, SoftDeleteSnapshot(snapshot)), PyNone) :
                 flashblade_snapshot \in
                   _get_flashblade_snapshot_by_name(rs, SnapshotFilt(snapshot))})

\* a slip in the semantics: the rules to add are applied on top of the list
update_access_incremental(rs, share, access_rules, add_rules, delete_rules) ==
    IF share.share_proto = "NFS"
    THEN _update_nfs_access(rs, share, access_rules \o add_rules)
    ELSE Returns(rs, PyNone)

\* a slip in the branching: the NFS rules are applied whatever the protocol
update_access_any_protocol(rs, share, access_rules, add_rules, delete_rules) ==
    _update_nfs_access(rs, share, access_rules)

update_access(rs, share, access_rules, add_rules, delete_rules) ==
    IF share.share_proto = "NFS"
    THEN _update_nfs_access(rs, share, access_rules)
    ELSE Returns(rs, PyNone)

extend_share(rs, share, new_size) == _resize_share(rs, share, new_size)

shrink_share(rs, share, new_size) == _resize_share(rs, share, new_size)

ensure_share(rs, share) == Returns(rs, PyNone)

get_network_allocations_number(rs) == Returns(rs, PyInt(0))

(***************************************************************************)
(* The state machine: the orchestrator calls one driver operation at a     *)
(* time (operations are synchronous and serialized by the orchestrator).   *)
(***************************************************************************)
Begin == {Start(file_systems, file_system_snapshots)}

\* the operation has run to its end r
Finish(op, arg, extra, r) ==
    /\ file_systems' = r.fs
    /\ file_system_snapshots' = r.snaps
    /\ last' = [op |-> op, arg |-> arg, extra |-> extra,
                calls |-> r.calls, exc |-> r.exc, val |-> r.val]
    /\ UNCHANGED <<flashblade_eradicate, versions, callers>>

Init ==
    /\ file_systems = <<>>
    /\ file_system_snapshots = <<>>
    /\ flashblade_eradicate \in BOOLEAN
    /\ versions \in {{"1.5"}, {"1.5", "1.6"}}
    /\ last = [op |-> "do_setup", arg |-> PyNone, extra |-> PyNone,
               calls |-> <<>>, exc |-> NoException, val |-> PyNone]
    /\ callers = <<>>

CreateShare ==
    \E share \in Shares :
        \E r \in create_share(Begin, share) : Finish("create_share", share, PyNone, r)

DeleteShare ==
    \E share \in ShareIdRefs :
        \E r \in delete_share(Begin, share) : Finish("delete_share", share, PyNone, r)

CreateSnapshot ==
    \E snapshot \in Snapshots :
        \E r \in create_snapshot(Begin, snapshot) :
            Finish("create_snapshot", snapshot, PyNone, r)

DeleteSnapshot ==
    \E snapshot \in Snapshots :
        \E r \in delete_snapshot(Begin, snapshot) :
            Finish("delete_snapshot", snapshot, PyNone, r)

UpdateAccess ==
    \E share \in ShareRefs, access_rules \in RuleLists, delta \in Deltas :
        \E r \in update_access(Begin, share, access_rules, delta[1], delta[2]) :
            Finish("update_access", share, access_rules, r)

ExtendShare ==
    \E share \in ShareIdRefs, new_size \in 1..MaxSizeGb :
        \E r \in extend_share(Begin, share, new_size) :
            Finish("extend_share", share, new_size, r)

ShrinkShare ==
    \E share \in ShareIdRefs, new_size \in 1..MaxSizeGb :
        \E r \in shrink_share(Begin, share, new_size) :
            Finish("shrink_share", share, new_size, r)

EnsureShare ==
    \E share \in ShareIdRefs :
        \E r \in ensure_share(Begin, share) : Finish("ensure_share", share, PyNone, r)

GetNetworkAllocationsNumber ==
    \E r \in get_network_allocations_number(Begin) :
        Finish("get_network_allocations_number", PyNone, PyNone, r)

UpdateShareStats ==
    \E r \in _update_share_stats(Begin) :
        Finish("_update_share_stats", PyNone, PyNone, r)

Next ==
    \/ CreateShare
    \/ DeleteShare
    \/ CreateSnapshot
    \/ DeleteSnapshot
    \/ UpdateAccess
    \/ ExtendShare
    \/ ShrinkShare
    \/ EnsureShare
    \/ GetNetworkAllocationsNumber
    \/ UpdateShareStats

Spec == Init /\ [][Next]_vars

(***************************************************************************)
(* Access updates alone, over every rule list up to MaxRules rules, on an  *)
(* array that holds the share as create_share has left it, or nothing.     *)
(***************************************************************************)
AccessInit ==
    /\ flashblade_eradicate = FALSE
    /\ versions = {"1.5", "1.6"}
    /\ file_system_snapshots = <<>>
    /\ file_systems \in
          {<<>>} \cup UNION {{r.fs : r \in {c \in create_share({Start(<<>>, <<>>)}, share) :
                                              c.exc = NoException}} :
                               share \in {s \in ShareRefs : s.share_proto \in {"NFS", "CIFS"}}}
    /\ last = [op |-> "do_setup", arg |-> PyNone, extra |-> PyNone,
               calls |-> <<>>, exc |-> NoException, val |-> PyNone]
    /\ callers = <<>>

UpdateAccessRules ==
    \E share \in {s \in ShareRefs : s.share_proto \in {"NFS", "CIFS"}},
       access_rules \in AccessRuleLists, delta \in Deltas :
        \E r \in update_access(Begin, share, access_rules, delta[1], delta[2]) :
            Finish("update_access", share, access_rules, r)

AccessNext == UpdateAccessRules

AccessSpec == AccessInit /\ [][AccessNext]_vars

(***************************************************************************)
(* The operations on one share while the array holds another share, with  *)
(* access rules and a snapshot of the same snapshot id.                    *)
(***************************************************************************)
OtherShare == [id |-> "b", size |-> 1, share_proto |-> "NFS"]

OtherSnapshot == [id |-> "s1", share_instance_id |-> "b"]

IsolationInit ==
    /\ flashblade_eradicate \in BOOLEAN
    /\ versions \in {{"1.5"}, {"1.5", "1.6"}}
    /\ \E r \in update_access(create_snapshot(create_share({Start(<<>>, <<>>)}, OtherShare),
                                               OtherSnapshot),
                               OtherShare,
                               <<Rule("ip", "10.0.0.1", "rw"), Rule("ip", "10.0.0.2", "ro")>>,
                               <<>>, <<>>) :
          /\ r.exc = NoException
          /\ Len(r.calls) = 5
          /\ file_systems = r.fs
          /\ file_system_snapshots = r.snaps
    /\ last = [op |-> "do_setup", arg |-> PyNone, extra |-> PyNone,
               calls |-> <<>>, exc |-> NoException, val |-> PyNone]
    /\ callers = <<>>

IsolationNext ==
    \/ CreateShare
    \/ DeleteShare
    \/ CreateSnapshot
    \/ DeleteSnapshot
    \/ UpdateAccess
    \/ ExtendShare
    \/ ShrinkShare

IsolationSpec == IsolationInit /\ [][IsolationNext]_vars

(***************************************************************************)
(* Two callers inside delete_share of the same share at the same time.     *)
(* The driver takes no lock: each array call is one atomic step and the    *)
(* steps of the two callers interleave in any order.                       *)
(***************************************************************************)
Callers == {1, 2}

ConcurrentShare == [id |-> "a", size |-> 1, share_proto |-> "NFS"]

\* the run of caller c, on the array as it is now
Resume(c) ==
    {[fs |-> file_systems, snaps |-> file_system_snapshots, calls |-> callers[c].calls,
      exc |-> NoException, val |-> PyNone]}

\* caller c has come to position pc with the run r, or has left delete_share
Suspend(c, r, pc) ==
    /\ file_systems' = r.fs
    /\ file_system_snapshots' = r.snaps
    /\ callers' = [callers EXCEPT ![c] = [pc |-> IF r.exc # NoException THEN "done" ELSE pc,
                                          calls |-> r.calls, exc |-> r.exc]]
    /\ last' = IF r.exc # NoException \/ pc = "done"
               THEN [op |-> "delete_share", arg |-> ConcurrentShare, extra |-> c,
                     calls |-> r.calls, exc |-> r.exc, val |-> PyNone]
               ELSE last
    /\ UNCHANGED <<flashblade_eradicate, versions>>

\* self._get_flashblade_filesystem_by_name(dataset_name) and its handler
Locate(c) ==
    /\ callers[c].pc = "locate"
    /\ \E r \in purity_fb_to_manila_exceptions(
                   _get_flashblade_filesystem_by_name(Resume(c),
                                                      _make_share_name(ConcurrentShare))) :
          IF r.exc = "ShareResourceNotFound"
          THEN Suspend(c, [r EXCEPT !.exc = NoException], "done")
          ELSE Suspend(c, r, "soft_delete")

\* self._sys.file_systems.update_file_systems(name=dataset_name, attributes=...)
SoftDelete(c) ==
    /\ callers[c].pc = "soft_delete"
    /\ \E r \in purity_fb_to_manila_exceptions(
                   Sys(Resume(c), SoftDeleteFileSystem(_make_share_name(ConcurrentShare)))) :
          Suspend(c, r, IF flashblade_eradicate THEN "hard_delete" ELSE "done")

\* self._sys.file_systems.delete_file_systems(dataset_name)
HardDelete(c) ==
    /\ callers[c].pc = "hard_delete"
    /\ \E r \in purity_fb_to_manila_exceptions(
                   Sys(Resume(c), [api |-> "delete_file_systems",
                                   name |-> _make_share_name(ConcurrentShare)])) :
          Suspend(c, r, "done")

ConcurrentInit ==
    /\ flashblade_eradicate \in BOOLEAN
    /\ versions \in {{"1.5"}, {"1.5", "1.6"}}
    /\ file_system_snapshots = <<>>
    /\ \E share \in {s \in ShareRefs : s.share_proto \in {"NFS", "CIFS"}} :
          \E r \in create_share({Start(<<>>, <<>>)}, share) :
              /\ r.exc = NoException
              /\ file_systems = r.fs
    /\ last = [op |-> "do_setup", arg |-> PyNone, extra |-> PyNone,
               calls |-> <<>>, exc |-> NoException, val |-> PyNone]
    /\ callers = [c \in Callers |-> [pc |-> "locate", calls |-> <<>>, exc |-> NoException]]

ConcurrentNext ==
    \E c \in Callers :
        \/ Locate(c)
        \/ SoftDelete(c)
        \/ HardDelete(c)

ConcurrentSpec == ConcurrentInit /\ [][ConcurrentNext]_vars

(***************************************************************************)
(* Vocabulary of the properties.                                           *)
(***************************************************************************)
Calls(l) == {l.calls[i] : i \in 1..Len(l.calls)}

Apis(l) == [i \in 1..Len(l.calls) |-> l.calls[i].req.api]

\* no array call of the operation raised ApiException
NoApiFault(l) == \A c \in Calls(l) : ~c.raised

SomeApiFault(l) == \E c \in Calls(l) : c.raised

MutatingApis ==
    {"create_file_systems", "update_file_systems", "delete_file_systems",
     "create_file_system_snapshots", "update_file_system_snapshots",
     "delete_file_system_snapshots"}

HardDeleteApis == {"delete_file_systems", "delete_file_system_snapshots"}

SoftDeleteOf(api) ==
    IF api = "delete_file_systems" THEN "update_file_systems" ELSE "update_file_system_snapshots"

NoMutation(l) == \A c \in Calls(l) : c.req.api \notin MutatingApis

FsName(share) == "share-" \o share.id \o "-manila"

SnapName(snapshot) == "share-" \o snapshot.share_instance_id \o "-manila," \o snapshot.id

SoftDeleted(array, name) == name \in DOMAIN array /\ array[name].destroyed

\* C1: a second delete_share right after a successful delete_share of an
\* existing file system, with no array call raising, ends without exception;
\* the file system is then soft-deleted (eradication off) or gone (eradication on).
C1_DeleteShareTwice ==
    [][(/\ last.op = "delete_share"
        /\ last.exc = NoException
        /\ Len(last.calls) >= 2
        /\ last'.op = "delete_share"
        /\ last'.arg.id = last.arg.id
        /\ NoApiFault(last'))
       => /\ last'.exc = NoException
          /\ IF flashblade_eradicate
             THEN FsName(last'.arg) \notin DOMAIN file_systems'
             ELSE SoftDeleted(file_systems', FsName(last'.arg))]_vars

\* C2: a second delete_snapshot right after a successful one ends without
\* exception, and a delete_snapshot whose lookup finds no snapshot ends
\* without exception and issues no update and no delete call.
C2_DeleteSnapshotTwice ==
    [][/\ (/\ last.op = "delete_snapshot"
           /\ last.exc = NoException
           /\ last'.op = "delete_snapshot"
           /\ last'.arg = last.arg
           /\ NoApiFault(last'))
          => last'.exc = NoException
       /\ (/\ last'.op = "delete_snapshot"
           /\ SnapName(last'.arg) \notin DOMAIN file_system_snapshots
           /\ Len(last'.calls) >= 1
           /\ ~last'.calls[1].raised)
          => /\ last'.exc = NoException
             /\ NoMutation(last')]_vars

\* C3: within one operation, every hard-delete call for a name comes after an
\* update of the same name that set destroyed=True and did not raise.
C3_SoftDeletePrecedesHardDelete ==
    \A j \in 1..Len(last.calls) :
        last.calls[j].req.api \in HardDeleteApis
        => \E i \in 1..(j - 1) :
              /\ last.calls[i].req.api = SoftDeleteOf(last.calls[j].req.api)
              /\ last.calls[i].req.name = last.calls[j].req.name
              /\ "destroyed" \in DOMAIN last.calls[i].req.attributes
              /\ last.calls[i].req.attributes.destroyed
              /\ ~last.calls[i].raised

C3_Witness ==
    /\ last.op = "delete_share"
    /\ last.exc = NoException
    /\ Len(last.calls) = 3
    /\ last.calls[3].req.api = "delete_file_systems"

\* C4: with eradication off no operation issues a hard delete and a
\* soft-deleted file system or snapshot stays on the array, destroyed; with
\* eradication on a successful delete of an existing file system or snapshot
\* issues locate, soft delete and then exactly one hard delete of that name.
C4_HardDeleteGated ==
    [][/\ ~flashblade_eradicate
          => /\ \A c \in Calls(last') : c.req.api \notin HardDeleteApis
             /\ \A n \in DOMAIN file_systems :
                   file_systems[n].destroyed => SoftDeleted(file_systems', n)
             /\ \A n \in DOMAIN file_system_snapshots :
                   file_system_snapshots[n].destroyed => SoftDeleted(file_system_snapshots', n)
       /\ (/\ flashblade_eradicate
           /\ last'.op = "delete_share"
           /\ last'.exc = NoException
           /\ FsName(last'.arg) \in DOMAIN file_systems)
          => /\ Apis(last') = <<"list_file_systems", "update_file_systems", "delete_file_systems">>
             /\ last'.calls[2].req.attributes.destroyed
             /\ last'.calls[3].req.name = FsName(last'.arg)
             /\ FsName(last'.arg) \notin DOMAIN file_systems'
       /\ (/\ flashblade_eradicate
           /\ last'.op = "delete_snapshot"
           /\ last'.exc = NoException
           /\ SnapName(last'.arg) \in DOMAIN file_system_snapshots)
          => /\ Apis(last') = <<"list_file_system_snapshots", "update_file_system_snapshots",
                                "delete_file_system_snapshots">>
             /\ last'.calls[2].req.attributes.destroyed
             /\ last'.calls[3].req.name = SnapName(last'.arg)
             /\ SnapName(last'.arg) \notin DOMAIN file_system_snapshots']_vars

C4_Witness ==
    /\ ~flashblade_eradicate
    /\ last.op = "delete_snapshot"
    /\ last.exc = NoException
    /\ Apis(last) = <<"list_file_system_snapshots", "update_file_system_snapshots">>
    /\ SoftDeleted(file_system_snapshots, SnapName(last.arg))

\* C5: when the array holds no file system of the share's name and the list
\* call answers without an item, delete_share, extend_share, shrink_share and
\* update_access end without exception and issue no create, update or delete.
C5_AbsentTargetIsNoOp ==
    [][(/\ last'.op \in {"delete_share", "extend_share", "shrink_share", "update_access"}
        /\ FsName(last'.arg) \notin DOMAIN file_systems
        /\ NoApiFault(last'))
       => /\ last'.exc = NoException
          /\ NoMutation(last')]_vars

\* C6: an operation in which an array call raised ApiException ends with
\* ShareBackendException.
C6_NoRawFaultEscapes ==
    SomeApiFault(last) => last.exc = "ShareBackendException"

\* C7: create_snapshot of a share whose file system is not on the array ends
\* with InvalidShare and creates no snapshot.
C7_MissingSourceIsInvalidShare ==
    [][(/\ last'.op = "create_snapshot"
        /\ "share-" \o last'.arg.share_instance_id \o "-manila" \notin DOMAIN file_systems)
       => /\ last'.exc = "InvalidShare"
          /\ file_system_snapshots' = file_system_snapshots]_vars

\* C8: create_share with a protocol other than NFS and CIFS raises the
\* driver's unsupported-protocol error (exception.InvalidShare), issues no
\* array call and leaves the array as it was.
C8_UnsupportedProtocol ==
    [][(/\ last'.op = "create_share"
        /\ last'.arg.share_proto \notin {"NFS", "CIFS"})
       => /\ last'.exc = "InvalidShare"
          /\ last'.calls = <<>>
          /\ file_systems' = file_systems
          /\ file_system_snapshots' = file_system_snapshots]_vars

C8_Witness ==
    /\ last.op = "create_share"
    /\ last.arg.share_proto = "SMB"
    /\ last.exc = "InvalidShare"
    /\ file_systems # <<>>

\* C9: a successful create_share of an NFS share of n GiB issues exactly one
\* file-system create, named share-<id>-manila, of n * 2^30 bytes, with the
\* hard limit enabled and an empty NFS rule string, under either API
\* generation, and returns "<data_address>:/share-<id>-manila".
C9_CreateNfsShare ==
    (/\ last.op = "create_share"
     /\ last.arg.share_proto = "NFS"
     /\ last.exc = NoException)
    => /\ Cardinality({i \in 1..Len(last.calls) :
                          last.calls[i].req.api = "create_file_systems"}) = 1
       /\ NoMutation([calls |-> SelectSeq(last.calls,
                                          LAMBDA c : c.req.api # "create_file_systems")])
       /\ \A c \in Calls(last) :
             c.req.api = "create_file_systems"
             => /\ c.req.file_system.name = FsName(last.arg)
                /\ c.req.file_system.provisioned = [hi |-> last.arg.size * 16384, lo |-> 0]
                /\ c.req.file_system.hard_limit_enabled
                /\ c.req.file_system.nfs.rules = ""
       /\ last.val = PyStr(data_address \o ":/share-" \o last.arg.id \o "-manila")

C9_Witness ==
    /\ last.op = "create_share"
    /\ last.arg.share_proto = "NFS"
    /\ last.arg.size = 2
    /\ last.exc = NoException
    /\ "1.6" \notin versions
    /\ file_systems[FsName(last.arg)].provisioned = [hi |-> 32768, lo |-> 0]

\* C10: a successful create_share of a CIFS share creates a file system with
\* SMB enabled and without NFS rule, and returns the UNC path
\* \\<data_address>\share-<id>-manila.
C10_CreateCifsShare ==
    (/\ last.op = "create_share"
     /\ last.arg.share_proto = "CIFS"
     /\ last.exc = NoException)
    => /\ \E c \in Calls(last) :
             /\ c.req.api = "create_file_systems"
             /\ c.req.file_system.smb.enabled
             /\ "nfs" \notin DOMAIN c.req.file_system
       /\ last.val = PyStr("\\\\" \o data_address \o "\\" \o FsName(last.arg))

(***************************************************************************)
(* Access rules.                                                           *)
(***************************************************************************)
IpRules(rules) == SelectSeq(rules, LAMBDA a : a.access_type = "ip")

KnownLevel(rule) == rule.access_level \in {"rw", "ro"}

Clause(rule) == rule.access_to \o "(" \o rule.access_level \o ",no_root_squash) "

RECURSIVE Clauses(_)
Clauses(rules) == IF Len(rules) = 0 THEN "" ELSE Clause(Head(rules)) \o Clauses(Tail(rules))

\* the locate call of the operation answered with a file system
Located(l) ==
    /\ Len(l.calls) >= 1
    /\ l.calls[1].req.api = "list_file_systems"
    /\ ~l.calls[1].raised
    /\ Len(l.calls[1].answer.items) >= 1
    /\ l.calls[1].answer.items[1] # PyNone

\* C11: the rule string that update_access writes is the concatenation, in
\* input order, of one clause "<access_to>(<level>,no_root_squash) " per ip
\* rule of the list, each with its own level rw or ro; other rules add
\* nothing, the empty list gives the empty string; and a successful
\* update_access of a located NFS share writes it in one update call.
C11_RuleStringIsRendering ==
    last.op = "update_access"
    => /\ \A c \in Calls(last) :
             c.req.api = "update_file_systems"
             => /\ \A i \in 1..Len(last.extra) :
                      last.extra[i].access_type = "ip" => KnownLevel(last.extra[i])
                /\ c.req.attributes.nfs.rules = Clauses(IpRules(last.extra))
       /\ (last.arg.share_proto = "NFS" /\ last.exc = NoException /\ Located(last))
          => Apis(last) = <<"list_file_systems", "update_file_systems">>

C11_Witness ==
    /\ last.op = "update_access"
    /\ last.exc = NoException
    /\ last.extra = <<Rule("ip", "10.0.0.2", "ro"), Rule("user", "alice", "su")>>
    /\ Len(last.calls) = 2
    /\ last.calls[2].req.attributes.nfs.rules = "10.0.0.2(ro,no_root_squash) "

\* C12 as stated: when any rule of access_rules has a level outside {rw, ro},
\* update_access raises the invalid-access-level error
\* (exception.InvalidShareAccessLevel) and issues no update call.
C12_AnyInvalidLevelAborts ==
    (/\ last.op = "update_access"
     /\ \E i \in 1..Len(last.extra) : ~KnownLevel(last.extra[i]))
    => /\ last.exc = "InvalidShareAccessLevel"
       /\ \A c \in Calls(last) : c.req.api # "update_file_systems"

\* C12 amended: when an ip rule of access_rules has a level outside {rw, ro},
\* update_access of an NFS share whose file system the locate call has
\* returned raises InvalidShareAccessLevel, has issued the locate call alone,
\* and the file system is as it was located, wherever the rule sits.
C12_InvalidIpLevelAborts ==
    (/\ last.op = "update_access"
     /\ last.arg.share_proto = "NFS"
     /\ Located(last)
     /\ \E i \in 1..Len(last.extra) :
           last.extra[i].access_type = "ip" /\ ~KnownLevel(last.extra[i]))
    => /\ last.exc = "InvalidShareAccessLevel"
       /\ Apis(last) = <<"list_file_systems">>
       /\ file_systems[FsName(last.arg)] = last.calls[1].answer.items[1]

C12_Witness ==
    /\ last.op = "update_access"
    /\ last.extra = <<Rule("ip", "10.0.0.1", "rw"), Rule("ip", "10.0.0.3", "su")>>
    /\ last.exc = "InvalidShareAccessLevel"
    /\ Located(last)
    /\ file_systems[FsName(last.arg)].nfs.rules = "10.0.0.2(ro,no_root_squash) "

\* C13: after a successful update_access of an NFS share whose file system
\* the locate call has returned, the NFS rule string of the file system is
\* the rendering of access_rules alone, whatever the rule string was before
\* and whatever add_rules and delete_rules hold.
C13_FullReplace ==
    (/\ last.op = "update_access"
     /\ last.arg.share_proto = "NFS"
     /\ last.exc = NoException
     /\ Located(last))
    => file_systems[FsName(last.arg)].nfs.rules = Clauses(IpRules(last.extra))

C13_Witness ==
    /\ last.op = "update_access"
    /\ last.exc = NoException
    /\ Located(last)
    /\ last.calls[1].answer.items[1].nfs.rules
          = "10.0.0.1(rw,no_root_squash) 10.0.0.2(ro,no_root_squash) "
    /\ last.extra = <<Rule("ip", "10.0.0.2", "ro")>>
    /\ file_systems[FsName(last.arg)].nfs.rules = "10.0.0.2(ro,no_root_squash) "

(***************************************************************************)
(* Life cycle, faults, frames.                                             *)
(***************************************************************************)
\* C14: once delete_share has soft-deleted the file system of a share, a
\* later extend_share, shrink_share, update_access or delete_share of that
\* share leaves its provisioned size, rule string and protocol flags as they
\* are, and destroyed stays true for as long as the file system is there.
C14_SoftDeletedIsTerminal ==
    [][(/\ last'.op \in {"extend_share", "shrink_share", "update_access", "delete_share"}
        /\ SoftDeleted(file_systems, FsName(last'.arg))
        /\ FsName(last'.arg) \in DOMAIN file_systems')
       => /\ file_systems'[FsName(last'.arg)].destroyed
          /\ file_systems'[FsName(last'.arg)].provisioned
                = file_systems[FsName(last'.arg)].provisioned
          /\ file_systems'[FsName(last'.arg)].nfs = file_systems[FsName(last'.arg)].nfs
          /\ file_systems'[FsName(last'.arg)].smb = file_systems[FsName(last'.arg)].smb]_vars

\* C15: when the first array-space record that list_arrays_space returns has
\* 0 <= total_physical <= capacity, the byte values of the stats, before the
\* division by 2^30, are free = capacity - total_physical, total = capacity
\* and provisioned = unique of that record; free + total_physical = total
\* and free is not negative.
C15_CapacityFromFirstRecord ==
    (/\ last.op = "_update_share_stats"
     /\ last.exc = NoException
     /\ 0 <= last.calls[1].answer.items[1].total_physical
     /\ last.calls[1].answer.items[1].total_physical <= last.calls[1].answer.items[1].capacity)
    => /\ last.val.free_capacity_gb.num
            = last.calls[1].answer.items[1].capacity
                - last.calls[1].answer.items[1].total_physical
       /\ last.val.total_capacity_gb.num = last.calls[1].answer.items[1].capacity
       /\ last.val.provisioned_capacity_gb.num = last.calls[1].answer.items[1].unique
       /\ last.val.free_capacity_gb.num + last.calls[1].answer.items[1].total_physical
            = last.val.total_capacity_gb.num
       /\ last.val.free_capacity_gb.num >= 0
       /\ last.val.free_capacity_gb.den = Gi
       /\ last.val.total_capacity_gb.den = Gi
       /\ last.val.provisioned_capacity_gb.den = Gi

C15_Witness ==
    /\ last.op = "_update_share_stats"
    /\ last.exc = NoException
    /\ Len(last.calls[1].answer.items) = 2
    /\ last.calls[1].answer.items[1]
          = [capacity |-> 2, total_physical |-> 1, unique |-> 1, data_reduction |-> 1]
    /\ last.val.free_capacity_gb.num = 1
    /\ last.val.provisioned_capacity_gb.num = 1

\* the locate call of delete_snapshot answered with a snapshot
LocatedSnapshot(l) ==
    /\ Len(l.calls) >= 1
    /\ l.calls[1].req.api = "list_file_system_snapshots"
    /\ ~l.calls[1].raised
    /\ Len(l.calls[1].answer.items) >= 1
    /\ l.calls[1].answer.items[1] # PyNone

\* C16: an array call that raises is the last call of its operation (it is
\* not issued again and no other call follows) and the operation ends with
\* an exception; in delete_share and delete_snapshot a raising soft-delete
\* update is followed by no hard delete and the located file system or
\* snapshot is on the array as it was located.
C16_NoCallAfterFault ==
    /\ \A i \in 1..Len(last.calls) :
          last.calls[i].raised => (i = Len(last.calls) /\ last.exc # NoException)
    /\ (/\ last.op = "delete_share"
        /\ Located(last)
        /\ Len(last.calls) >= 2
        /\ last.calls[2].raised)
       => /\ Apis(last) = <<"list_file_systems", "update_file_systems">>
          /\ FsName(last.arg) \in DOMAIN file_systems
          /\ file_systems[FsName(last.arg)] = last.calls[1].answer.items[1]
    /\ (/\ last.op = "delete_snapshot"
        /\ LocatedSnapshot(last)
        /\ Len(last.calls) >= 2
        /\ last.calls[2].raised)
       => /\ Apis(last) = <<"list_file_system_snapshots", "update_file_system_snapshots">>
          /\ SnapName(last.arg) \in DOMAIN file_system_snapshots
          /\ file_system_snapshots[SnapName(last.arg)] = last.calls[1].answer.items[1]

C16_Witness ==
    /\ flashblade_eradicate
    /\ last.op = "delete_share"
    /\ last.exc = "ShareBackendException"
    /\ Len(last.calls) = 2
    /\ last.calls[2].raised
    /\ FsName(last.arg) \in DOMAIN file_systems
    /\ ~file_systems[FsName(last.arg)].destroyed

\* C17: update_access of a share whose protocol is not NFS issues no array
\* call, raises nothing and leaves the array as it was, whatever the rules
\* are.
C17_NonNfsAccessIsNoOp ==
    [][(/\ last'.op = "update_access"
        /\ last'.arg.share_proto # "NFS")
       => /\ last'.calls = <<>>
          /\ last'.exc = NoException
          /\ file_systems' = file_systems
          /\ file_system_snapshots' = file_system_snapshots]_vars

C17_Witness ==
    /\ last.op = "update_access"
    /\ last.arg.share_proto = "CIFS"
    /\ last.extra = <<Rule("ip", "10.0.0.1", "rw"), Rule("ip", "10.0.0.3", "su")>>
    /\ last.calls = <<>>
    /\ last.exc = NoException
    /\ FsName(last.arg) \in DOMAIN file_systems
    /\ file_systems[FsName(last.arg)].smb.enabled

\* C18: extend_share and shrink_share of a share whose file system is on the
\* array send the provisioned size n * 2^30 alone, whatever the current size
\* is, and change nothing else of the file system; update_access sends the
\* NFS rule string alone and changes nothing else of the file system.
C18_DisjointAttributes ==
    [][/\ (/\ last'.op \in {"extend_share", "shrink_share"}
           /\ FsName(last'.arg) \in DOMAIN file_systems)
          => /\ \A c \in Calls(last') :
                   c.req.api \in MutatingApis
                   => /\ c.req.api = "update_file_systems"
                      /\ c.req.name = FsName(last'.arg)
                      /\ DOMAIN c.req.attributes = {"provisioned"}
                      /\ c.req.attributes.provisioned = [hi |-> last'.extra * 16384, lo |-> 0]
             /\ file_systems'
                  = [file_systems EXCEPT ![FsName(last'.arg)].provisioned =
                       IF last'.exc = NoException
                       THEN [hi |-> last'.extra * 16384, lo |-> 0]
                       ELSE @]
             /\ file_system_snapshots' = file_system_snapshots
       /\ (/\ last'.op = "update_access"
           /\ FsName(last'.arg) \in DOMAIN file_systems)
          => /\ \A c \in Calls(last') :
                   c.req.api \in MutatingApis
                   => /\ c.req.api = "update_file_systems"
                      /\ c.req.name = FsName(last'.arg)
                      /\ DOMAIN c.req.attributes = {"nfs"}
                      /\ DOMAIN c.req.attributes.nfs = {"rules"}
             /\ file_systems'
                  = [file_systems EXCEPT ![FsName(last'.arg)].nfs.rules =
                       file_systems'[FsName(last'.arg)].nfs.rules]
             /\ file_system_snapshots' = file_system_snapshots]_vars

C18_Witness ==
    /\ last.op = "shrink_share"
    /\ last.extra = 2
    /\ last.exc = NoException
    /\ Located(last)
    /\ last.calls[1].answer.items[1].provisioned = [hi |-> 16384, lo |-> 0]
    /\ file_systems[FsName(last.arg)].provisioned = [hi |-> 32768, lo |-> 0]
    /\ file_systems[FsName(last.arg)].nfs.rules
          = "10.0.0.1(rw,no_root_squash) 10.0.0.2(ro,no_root_squash) "
    /\ ~file_systems[FsName(last.arg)].destroyed

(***************************************************************************)
(* Isolation between shares.                                               *)
(***************************************************************************)
\* the array call c names no file system but name
NamesFileSystem(c, name) ==
    CASE c.req.api = "list_versions" -> TRUE
      [] c.req.api = "list_file_systems" -> c.req.names = <<name>>
      [] c.req.api = "create_file_systems" -> c.req.file_system.name = name
      [] c.req.api \in {"update_file_systems", "delete_file_systems"} -> c.req.name = name
      [] OTHER -> FALSE

\* the array call c names no snapshot but the one of suffix id of the file system source
NamesSnapshot(c, source, id) ==
    CASE c.req.api = "list_file_system_snapshots" ->
            c.req.filter = "source='" \o source \o "' and suffix='" \o id \o "'"
      [] c.req.api = "create_file_system_snapshots" ->
            c.req.sources = <<source>> /\ c.req.suffix = id
      [] c.req.api \in {"update_file_system_snapshots", "delete_file_system_snapshots"} ->
            c.req.name = source \o "," \o id
      [] OTHER -> FALSE

\* C19: every array call of create_share, delete_share, extend_share,
\* shrink_share and update_access names the file system share-<id>-manila of
\* its share alone, and every call of create_snapshot and delete_snapshot
\* names the source share-<share_instance_id>-manila and the suffix
\* snapshot id alone; the file systems and snapshots of every other share
\* are on the array afterwards exactly as before.
C19_IsolatedPerShare ==
    [][/\ last'.op \in {"create_share", "delete_share", "extend_share", "shrink_share",
                        "update_access"}
          => /\ \A c \in Calls(last') : NamesFileSystem(c, FsName(last'.arg))
             /\ \A n \in (DOMAIN file_systems \cup DOMAIN file_systems') \ {FsName(last'.arg)} :
                   /\ n \in DOMAIN file_systems
                   /\ n \in DOMAIN file_systems'
                   /\ file_systems'[n] = file_systems[n]
             /\ \A n \in DOMAIN file_system_snapshots :
                   file_system_snapshots[n].source # FsName(last'.arg)
                   => /\ n \in DOMAIN file_system_snapshots'
                      /\ file_system_snapshots'[n] = file_system_snapshots[n]
             /\ \A n \in DOMAIN file_system_snapshots' :
                   file_system_snapshots'[n].source # FsName(last'.arg)
                   => n \in DOMAIN file_system_snapshots
       /\ last'.op \in {"create_snapshot", "delete_snapshot"}
          => /\ \A c \in Calls(last') :
                   NamesSnapshot(c, "share-" \o last'.arg.share_instance_id \o "-manila",
                                 last'.arg.id)
             /\ file_systems' = file_systems
             /\ \A n \in (DOMAIN file_system_snapshots \cup DOMAIN file_system_snapshots')
                            \ {SnapName(last'.arg)} :
                   /\ n \in DOMAIN file_system_snapshots
                   /\ n \in DOMAIN file_system_snapshots'
                   /\ file_system_snapshots'[n] = file_system_snapshots[n]]_vars

C19_Witness ==
    /\ flashblade_eradicate
    /\ last.op = "delete_snapshot"
    /\ last.arg.share_instance_id = "a"
    /\ last.exc = NoException
    /\ Len(last.calls) = 3
    /\ "share-a-manila,s1" \notin DOMAIN file_system_snapshots
    /\ "share-b-manila,s1" \in DOMAIN file_system_snapshots
    /\ ~file_system_snapshots["share-b-manila,s1"].destroyed
    /\ "share-b-manila" \in DOMAIN file_systems
    /\ file_systems["share-b-manila"].nfs.rules
          = "10.0.0.1(rw,no_root_squash) 10.0.0.2(ro,no_root_squash) "

(***************************************************************************)
(* Concurrent deletes.                                                     *)
(***************************************************************************)
\* both callers have left delete_share and no call of theirs met a transient fault
BothDone ==
    /\ DOMAIN callers = Callers
    /\ \A c \in Callers :
          /\ callers[c].pc = "done"
          /\ \A i \in 1..Len(callers[c].calls) : ~callers[c].calls[i].transient

\* C20: two concurrent delete_share calls of an existing share,
\* on an array without transient faults, both return without error and the
\* file system ends soft-deleted (eradication off) or absent (eradication on).
C20_ConcurrentDeletesConverge ==
    BothDone
    => /\ \A c \in Callers : callers[c].exc = NoException
       /\ IF flashblade_eradicate
          THEN FsName(ConcurrentShare) \notin DOMAIN file_systems
          ELSE SoftDeleted(file_systems, FsName(ConcurrentShare))

====
